---- MODULE Spec2Model ----
(***************************************************************************)
(* Model of aws-auth-payload (src/src/client.rs).                          *)
(*                                                                         *)
(* The crate has two operations, AwsAuthIamPayload::new and presigned_url. *)
(* Both build a rusoto_core SignedRequest for STS GetCallerIdentity, add   *)
(* the caller's headers, sign it and serialise the result.  The operators  *)
(* named after rusoto_core items model what the calls made in client.rs    *)
(* do.  Strings are TLA+ strings and every conversion (lower-casing,       *)
(* percent-encoding, base64, number and time formatting) is computed       *)
(* character by character.  SHA-256 and HMAC-SHA256 are replaced by a      *)
(* 15-bit polynomial digest: the model keeps what is hashed and with which *)
(* key, not the hash itself.                                               *)
(***************************************************************************)
EXTENDS Integers, Sequences, FiniteSets, TLC

VARIABLES
    credentials,        \* &AwsCredentials handed to both operations
    region,             \* Option<Region> handed to both operations
    additional_headers, \* HashMap<&str, &str>: a set of <<name, value>>
    now,                \* the clock, seconds after 2020-01-01T23:59:58Z
    result,             \* what the last call returned, None before the first
    logged              \* the records the last call wrote through `log`

vars == <<credentials, region, additional_headers, now, result, logged>>

----------------------------------------------------------------------------
(* Bounds of the model *)

MaxHeaders == 2
MaxNow == 1

----------------------------------------------------------------------------
(* Option<T> *)

None == <<>>
Some(x) == <<x>>
IsSome(o) == o # None
Unwrap(o) == o[1]

----------------------------------------------------------------------------
(* Characters and byte values *)

AsciiLow == " !\"#$%&'()*+,-./0123456789:;<=>?@ABCDEFGHIJKLMNOPQRSTUVWXYZ[\\]^_"
AsciiHigh == "abcdefghijklmnopqrstuvwxyz{|}~"

Chr(s, i) == SubSeq(s, i, i)

\* The byte value of a character: 32..95 and 97..126, and 10 for the newline.
Code == [c \in {Chr(AsciiLow, i) : i \in 1..Len(AsciiLow)}
               \cup {Chr(AsciiHigh, i) : i \in 1..Len(AsciiHigh)} \cup {"\n"} |->
            IF c = "\n" THEN 10
            ELSE IF \E i \in 1..Len(AsciiLow) : Chr(AsciiLow, i) = c
                 THEN 31 + (CHOOSE i \in 1..Len(AsciiLow) : Chr(AsciiLow, i) = c)
                 ELSE 96 + (CHOOSE i \in 1..Len(AsciiHigh) : Chr(AsciiHigh, i) = c)]

FromCode(n) ==
    IF n = 10 THEN "\n"
    ELSE IF n <= 95 THEN Chr(AsciiLow, n - 31) ELSE Chr(AsciiHigh, n - 96)

IsUpper(c) == Code[c] >= 65 /\ Code[c] <= 90
IsLower(c) == Code[c] >= 97 /\ Code[c] <= 122
IsDigit(c) == Code[c] >= 48 /\ Code[c] <= 57

\* The concatenation of seq[lo..hi], by halves.
RECURSIVE ConcatRange(_, _, _)
ConcatRange(seq, lo, hi) ==
    IF lo > hi THEN ""
    ELSE IF lo = hi THEN seq[lo]
    ELSE ConcatRange(seq, lo, (lo + hi) \div 2) \o ConcatRange(seq, ((lo + hi) \div 2) + 1, hi)

Concat(seq) == ConcatRange(seq, 1, Len(seq))

Join(seq, sep) ==
    Concat([i \in 1..Len(seq) |-> IF i > 1 THEN sep \o seq[i] ELSE seq[i]])

\* The image of the character of s at place i under the table T, "" past the end.
MapAt(T, s, i) == IF i <= Len(s) THEN T[Chr(s, i)] ELSE ""

MapChunk(T, s, i) ==
    MapAt(T, s, i) \o MapAt(T, s, i + 1) \o MapAt(T, s, i + 2) \o MapAt(T, s, i + 3)
        \o MapAt(T, s, i + 4) \o MapAt(T, s, i + 5) \o MapAt(T, s, i + 6) \o MapAt(T, s, i + 7)

\* s with every character replaced by its image under T (eight at a time).
MapChars(T, s) == Concat([g \in 1..((Len(s) + 7) \div 8) |-> MapChunk(T, s, 8 * g - 7)])

LowerChar(c) == IF IsUpper(c) THEN FromCode(Code[c] + 32) ELSE c

LowerTable == [c \in DOMAIN Code |-> LowerChar(c)]

to_ascii_lowercase(s) == MapChars(LowerTable, s)

\* The order of str (and of the keys of a BTreeMap): byte by byte.
RECURSIVE StrLessFrom(_, _, _)
StrLessFrom(a, b, i) ==
    IF i > Len(b) THEN FALSE
    ELSE IF i > Len(a) THEN TRUE
    ELSE IF Chr(a, i) # Chr(b, i) THEN Code[Chr(a, i)] < Code[Chr(b, i)]
    ELSE StrLessFrom(a, b, i + 1)

StrLess(a, b) == StrLessFrom(a, b, 1)

Occurrences(s, sub) ==
    {i \in 1..(Len(s) - Len(sub) + 1) : SubSeq(s, i, i + Len(sub) - 1) = sub}

\* str::find: the first place of sub in s, 0 when there is none.
Find(s, sub) ==
    IF Occurrences(s, sub) = {} THEN 0
    ELSE CHOOSE i \in Occurrences(s, sub) : \A j \in Occurrences(s, sub) : i <= j

Contains(s, sub) == Occurrences(s, sub) # {}

HexDigits == "0123456789abcdef"
HexDigitsUpper == "0123456789ABCDEF"

RECURSIVE U64ToString(_)
U64ToString(n) ==
    IF n < 10 THEN Chr(HexDigits, n + 1)
    ELSE U64ToString(n \div 10) \o Chr(HexDigits, (n % 10) + 1)

TwoDigits(n) == Chr(HexDigits, (n \div 10) + 1) \o Chr(HexDigits, (n % 10) + 1)

----------------------------------------------------------------------------
(* Hashing, encodings *)

\* Stand-in for SHA-256: h' = (31 h + byte) mod 2^15 over the bytes, in hex.
\* A range of bytes gives <<its digest from 0, 31^length>>; the string is cut
\* in blocks of eight bytes, and the blocks are combined by halves.
Pow31 == <<1, 31, 961, 29791, 6017, 22687, 15169, 11487, 28417>>

CombineDigests(a, b) == <<(a[1] * b[2] + b[1]) % 32768, (a[2] * b[2]) % 32768>>

ByteAt(s, i) == Code[Chr(s, i)]

FullBlock(s, i) ==
    (ByteAt(s, i) * 11487 + ByteAt(s, i + 1) * 15169 + ByteAt(s, i + 2) * 22687
        + ByteAt(s, i + 3) * 6017 + ByteAt(s, i + 4) * 29791 + ByteAt(s, i + 5) * 961
        + ByteAt(s, i + 6) * 31 + ByteAt(s, i + 7)) % 32768

\* The last n < 8 bytes, from place i.
RECURSIVE TailBlock(_, _, _)
TailBlock(s, i, n) ==
    IF n = 0 THEN 0 ELSE (ByteAt(s, i) * Pow31[n] + TailBlock(s, i + 1, n - 1)) % 32768

BlockDigest(s, g) ==
    IF 8 * g <= Len(s) THEN <<FullBlock(s, 8 * g - 7), 28417>>
    ELSE <<TailBlock(s, 8 * g - 7, Len(s) - 8 * g + 8), Pow31[Len(s) - 8 * g + 9]>>

RECURSIVE BlockRange(_, _, _)
BlockRange(s, lo, hi) ==
    IF lo > hi THEN <<0, 1>>
    ELSE IF lo = hi THEN BlockDigest(s, lo)
    ELSE CombineDigests(BlockRange(s, lo, (lo + hi) \div 2),
                        BlockRange(s, ((lo + hi) \div 2) + 1, hi))

SeedDigest(seed, d) == (seed * d[2] + d[1]) % 32768

Digest(s, seed) == SeedDigest(seed, BlockRange(s, 1, (Len(s) + 7) \div 8))

HexU16(h) ==
    Chr(HexDigits, (h \div 4096) + 1) \o Chr(HexDigits, ((h \div 256) % 16) + 1)
        \o Chr(HexDigits, ((h \div 16) % 16) + 1) \o Chr(HexDigits, (h % 16) + 1)

to_hexdigest(s) == HexU16(Digest(s, 7))

\* Stand-in for HMAC-SHA256: the digest of the message seeded with the key's.
hmac(key, msg) == HexU16(Digest(msg, Digest(key, 11)))

EMPTY_SHA256_HASH == to_hexdigest("")

\* percent_encoding with rusoto's STRICT_ENCODE_SET: all but A-Z a-z 0-9 - _ . ~
IsUnreserved(c) == IsUpper(c) \/ IsLower(c) \/ IsDigit(c) \/ c \in {"-", "_", ".", "~"}

PercentByte(c) ==
    "%" \o Chr(HexDigitsUpper, (Code[c] \div 16) + 1) \o Chr(HexDigitsUpper, (Code[c] % 16) + 1)

StrictEncodeChar(c) == IF IsUnreserved(c) THEN c ELSE PercentByte(c)

StrictEncodeTable == [c \in DOMAIN Code |-> StrictEncodeChar(c)]

encode_uri_strict(s) == MapChars(StrictEncodeTable, s)

\* form_urlencoded::byte_serialize, as serde_urlencoded applies it
FormEncodeChar(c) ==
    IF IsUpper(c) \/ IsLower(c) \/ IsDigit(c) \/ c \in {"*", "-", ".", "_"} THEN c
    ELSE IF c = " " THEN "+"
    ELSE PercentByte(c)

FormEncodeTable == [c \in DOMAIN Code |-> FormEncodeChar(c)]

byte_serialize(s) == MapChars(FormEncodeTable, s)

Base64Alphabet == "ABCDEFGHIJKLMNOPQRSTUVWXYZabcdefghijklmnopqrstuvwxyz0123456789+/"

B64Char(n) == Chr(Base64Alphabet, n + 1)

\* The four characters for the (up to) three bytes of s from place i.
Base64Group(s, i) ==
    LET left == Len(s) - i + 1
        b1 == Code[Chr(s, i)]
        b2 == IF left >= 2 THEN Code[Chr(s, i + 1)] ELSE 0
        b3 == IF left >= 3 THEN Code[Chr(s, i + 2)] ELSE 0
    IN  B64Char(b1 \div 4)
            \o B64Char(((b1 % 4) * 16) + (b2 \div 16))
            \o (IF left >= 2 THEN B64Char(((b2 % 16) * 4) + (b3 \div 64)) ELSE "=")
            \o (IF left >= 3 THEN B64Char(b3 % 64) ELSE "=")

base64_encode(s) ==
    Concat([g \in 1..((Len(s) + 2) \div 3) |-> Base64Group(s, 3 * g - 2)])

----------------------------------------------------------------------------
(* BTreeMap<String, _>: the entries <<key, value>> in the order of the keys *)

EmptyMap == <<>>

Has(m, k) == \E i \in 1..Len(m) : m[i][1] = k

Get(m, k) == m[CHOOSE i \in 1..Len(m) : m[i][1] = k][2]

Keys(m) == [i \in 1..Len(m) |-> m[i][1]]

\* The number of keys of m before k.
Rank(m, k) == Cardinality({i \in 1..Len(m) : StrLess(m[i][1], k)})

InsertAt(m, r, e) == SubSeq(m, 1, r) \o <<e>> \o SubSeq(m, r + 1, Len(m))

Put(m, k, v) ==
    IF Has(m, k) THEN [i \in 1..Len(m) |-> IF m[i][1] = k THEN <<k, v>> ELSE m[i]]
    ELSE InsertAt(m, Rank(m, k), <<k, v>>)

KeyIsNot(e, k) == e[1] # k

Remove(m, k) == SelectSeq(m, LAMBDA e : KeyIsNot(e, k))

\* The map as a HashMap: a function of its keys.
AsHashMap(m) == [k \in {m[i][1] : i \in 1..Len(m)} |-> Get(m, k)]

----------------------------------------------------------------------------
(* rusoto_core::Region, as the two operations use it *)

\* Region names Region::from_str accepts (the ones the model draws from).
KnownRegions == {"us-east-1", "eu-west-1", "cn-north-1"}

ChinaRegions == {"cn-north-1", "cn-northwest-1"}

\* Region::default(): the region the environment (AWS_DEFAULT_REGION,
\* AWS_REGION) names when it is a known one, us-east-1 otherwise.
RegionDefault(env) ==
    IF IsSome(env) /\ Unwrap(env) \in KnownRegions THEN Unwrap(env) ELSE "us-east-1"

\* region.as_ref().map(|r| Cow::Borrowed(r.borrow())).unwrap_or_default()
ResolveRegion(r, env) == IF IsSome(r) THEN Unwrap(r) ELSE RegionDefault(env)

\* build_hostname gone wrong: the region segment left out.
build_hostname_global(service, r) == service \o ".amazonaws.com"

\* build_hostname: sts has a regional endpoint in every region.
build_hostname(service, r) ==
    IF r \in ChinaRegions THEN service \o "." \o r \o ".amazonaws.com.cn"
    ELSE service \o "." \o r \o ".amazonaws.com"

----------------------------------------------------------------------------
(* The clock: now() and chrono's formatting of it *)

\* The clock counts seconds from 2020-01-01T23:59:58Z.
SecondOfDay(t) == (86398 + t) % 86400
DayOfMonth(t) == 1 + ((86398 + t) \div 86400)

\* date.format("%Y%m%d")
FormatDate(t) == "202001" \o TwoDigits(DayOfMonth(t))

\* date.format("%Y%m%dT%H%M%SZ")
FormatDateTime(t) ==
    FormatDate(t) \o "T" \o TwoDigits(SecondOfDay(t) \div 3600)
        \o TwoDigits((SecondOfDay(t) \div 60) % 60) \o TwoDigits(SecondOfDay(t) % 60) \o "Z"

\* Duration::as_secs of a duration kept in milliseconds
as_secs(d) == d \div 1000

\* Duration::from_secs(60), in milliseconds
DEFAULT_EXPIRES == 60000

----------------------------------------------------------------------------
(* rusoto_core::signature::SignedRequest *)

\* signed_over is not a field of the struct: it records the names of the
\* headers the request held when its signature was last computed.
SignedRequest_new(method, service, r, path) ==
    [method |-> method, service |-> service, region |-> r, path |-> path,
     headers |-> EmptyMap, params |-> EmptyMap, payload |-> None, signed_over |-> <<>>]

remove_header(req, key) ==
    [req EXCEPT !.headers = Remove(@, to_ascii_lowercase(key))]

AppendValue(headers, key_lower, value) ==
    IF Has(headers, key_lower)
    THEN Put(headers, key_lower, Append(Get(headers, key_lower), value))
    ELSE Put(headers, key_lower, <<value>>)

\* add_header gone wrong: the key kept as the caller wrote it.
add_header_verbatim(req, key, value) ==
    [req EXCEPT !.headers = AppendValue(@, key, value)]

\* The key is lower-cased; a key already present gets the value appended.
add_header(req, key, value) ==
    [req EXCEPT !.headers = AppendValue(@, to_ascii_lowercase(key), value)]

set_header(req, key, value) == add_header(remove_header(req, key), key, value)

set_payload(req, body) == [req EXCEPT !.payload = body]

set_content_type(req, content_type) == add_header(req, "content-type", content_type)

set_params(req, params) == [req EXCEPT !.params = params]

scheme(req) == "https"

hostname(req) == build_hostname(req.service, req.region)

canonical_path(req) == req.path

\* for (header, value) in additional_headers.into_iter() { request.add_header(..) }
\* over the entries in the order the HashMap yields them.
RECURSIVE add_headers(_, _, _)
add_headers(req, order, i) ==
    IF i > Len(order) THEN req
    ELSE add_headers(add_header(req, order[i][1], order[i][2]), order, i + 1)

\* skipped_headers gone wrong: host is skipped too.
skipped_headers_with_host(h) ==
    h \in {"authorization", "content-length", "user-agent", "host"}

skipped_headers(h) == h \in {"authorization", "content-length", "user-agent"}

NotSkipped(e) == ~skipped_headers(e[1])

signed_headers(headers) == Join(Keys(SelectSeq(headers, NotSkipped)), ";")

Trim(s) ==
    LET first == CHOOSE i \in 1..(Len(s) + 1) :
                    /\ i = Len(s) + 1 \/ Chr(s, i) # " "
                    /\ \A j \in 1..(i - 1) : Chr(s, j) = " "
        last == CHOOSE i \in 0..Len(s) :
                    /\ i = 0 \/ Chr(s, i) # " "
                    /\ \A j \in (i + 1)..Len(s) : Chr(s, j) = " "
    IN  SubSeq(s, first, last)

canonical_values(values) == Join([i \in 1..Len(values) |-> Trim(values[i])], ",")

CanonicalHeaderLine(e) == e[1] \o ":" \o canonical_values(e[2]) \o "\n"

CanonicalLines(entries) == Concat([i \in 1..Len(entries) |-> CanonicalHeaderLine(entries[i])])

canonical_headers(headers) == CanonicalLines(SelectSeq(headers, NotSkipped))

build_canonical_query_string(params) ==
    Join([i \in 1..Len(params) |->
            encode_uri_strict(params[i][1]) \o "=" \o encode_uri_strict(params[i][2])], "&")

\* serde_urlencoded::to_string(&params)
serde_urlencoded_to_string(params) ==
    Join([i \in 1..Len(params) |->
            byte_serialize(params[i][1]) \o "=" \o byte_serialize(params[i][2])], "&")

Scope(t, req) == FormatDate(t) \o "/" \o req.region \o "/" \o req.service \o "/aws4_request"

string_to_sign(t, hashed_canonical_request, scope) ==
    "AWS4-HMAC-SHA256\n" \o FormatDateTime(t) \o "\n" \o scope \o "\n" \o hashed_canonical_request

\* The four-step key derivation and the signature.
sign_string(to_sign, secret, t, r, service) ==
    hmac(hmac(hmac(hmac(hmac("AWS4" \o secret, FormatDate(t)), r), service), "aws4_request"),
         to_sign)

PayloadDigest(req) ==
    IF IsSome(req.payload) THEN to_hexdigest(Unwrap(req.payload)) ELSE EMPTY_SHA256_HASH

PayloadLen(req) == IF IsSome(req.payload) THEN Len(Unwrap(req.payload)) ELSE 0

WithDefaultContentType(req) ==
    IF Has(req.headers, "content-type") THEN req
    ELSE add_header(req, "content-type", "application/octet-stream")

WithContentLength(req) == set_header(req, "content-length", U64ToString(PayloadLen(req)))

\* host, content-type (when none is set) and content-length
complement_request(req) ==
    WithContentLength(WithDefaultContentType(set_header(req, "host", hostname(req))))

CanonicalRequest(req, sh) ==
    req.method \o "\n" \o canonical_path(req) \o "\n"
        \o build_canonical_query_string(req.params) \o "\n"
        \o canonical_headers(req.headers) \o "\n" \o sh \o "\n" \o PayloadDigest(req)

\* The signature of the request as it stands, sh being its signed-headers list.
Signature(req, creds, t, sh) ==
    sign_string(string_to_sign(t, to_hexdigest(CanonicalRequest(req, sh)), Scope(t, req)),
                creds.secret, t, req.region, req.service)

AuthHeader(creds, scope, sh, signature) ==
    "AWS4-HMAC-SHA256 Credential=" \o creds.key \o "/" \o scope
        \o ", SignedHeaders=" \o sh \o ", Signature=" \o signature

\* sign() gone wrong: the session token is never added.
WithoutSecurityToken(req, creds) == req

\* if let Some(ref token) = *creds.token() { .. add_header("X-Amz-Security-Token", token) }
WithSecurityToken(req, creds) ==
    IF IsSome(creds.token)
    THEN set_header(req, "X-Amz-Security-Token", Unwrap(creds.token))
    ELSE req

WithContentSha256(req) == set_header(req, "x-amz-content-sha256", PayloadDigest(req))

\* The headers sign() sets before it computes the signed-headers list.
PrepareHeaders(req, creds, t) ==
    WithContentSha256(WithSecurityToken(
        set_header(complement_request(req), "x-amz-date", FormatDateTime(t)), creds))

SignedOver(req) == [req EXCEPT !.signed_over = Keys(req.headers)]

Authorize(req, creds, t, sh) ==
    set_header(SignedOver(req), "authorization",
               AuthHeader(creds, Scope(t, req), sh, Signature(req, creds, t, sh)))

SignPrepared(req, creds, t) == Authorize(req, creds, t, signed_headers(req.headers))

\* SignedRequest::sign at time t
sign(req, creds, t) == SignPrepared(PrepareHeaders(req, creds, t), creds, t)

\* self.params.put(key, value)
put_param(req, key, value) == [req EXCEPT !.params = Put(@, key, value)]

StripSigningHeaders(req) ==
    remove_header(remove_header(remove_header(req,
        "X-Amz-Content-Sha256"), "X-Amz-Date"), "Content-Type")

TokenToParam(req, creds) ==
    IF IsSome(creds.token)
    THEN put_param(remove_header(req, "X-Amz-Security-Token"),
                   "X-Amz-Security-Token", Unwrap(creds.token))
    ELSE req

\* generate_presigned_url gone wrong: the algorithm is never put.
AlgorithmParamOmitted(req) == remove_header(req, "X-Amz-Algorithm")

AlgorithmParam(req) ==
    put_param(remove_header(req, "X-Amz-Algorithm"), "X-Amz-Algorithm", "AWS4-HMAC-SHA256")

\* generate_presigned_url gone wrong: the secret key where the key id belongs.
CredentialParamFromSecret(req, creds, t) ==
    put_param(remove_header(req, "X-Amz-Credential"),
              "X-Amz-Credential", creds.secret \o "/" \o Scope(t, req))

CredentialParam(req, creds, t) ==
    put_param(remove_header(req, "X-Amz-Credential"),
              "X-Amz-Credential", creds.key \o "/" \o Scope(t, req))

ExpiresParam(req, expires_in) ==
    put_param(remove_header(req, "X-Amz-Expires"),
              "X-Amz-Expires", U64ToString(as_secs(expires_in)))

SignedHeadersParam(req) == put_param(req, "X-Amz-SignedHeaders", signed_headers(req.headers))

DateParam(req, t) == put_param(req, "X-Amz-Date", FormatDateTime(t))

\* The request with every query parameter but the signature.
PresignParams(req, creds, expires_in, t) ==
    DateParam(SignedHeadersParam(ExpiresParam(CredentialParam(AlgorithmParam(
        TokenToParam(StripSigningHeaders(req), creds)), creds, t), expires_in)), t)

SignatureParam(req, creds, t) ==
    put_param(SignedOver(req), "X-Amz-Signature",
              Signature(req, creds, t, Get(req.params, "X-Amz-SignedHeaders")))

\* The request as generate_presigned_url leaves it: it is signed as for a
\* header-signed call, the signing headers move to query parameters, and the
\* signature is computed over those.
Presigned(req, creds, expires_in, t) ==
    SignatureParam(PresignParams(sign(req, creds, t), creds, expires_in, t), creds, t)

\* format!("{}://{}{}?{}", scheme, hostname, canonical_uri, canonical_query_string)
RenderUrl(req) ==
    scheme(req) \o "://" \o hostname(req) \o canonical_path(req) \o "?"
        \o build_canonical_query_string(req.params)

\* SignedRequest::generate_presigned_url(creds, expires_in, true) at time t
generate_presigned_url(req, creds, expires_in, t) ==
    RenderUrl(Presigned(req, creds, expires_in, t))

----------------------------------------------------------------------------
(* src/src/client.rs *)

\* params.put("Action", ..); params.put("Version", ..)
GetCallerIdentityParams ==
    Put(Put(EmptyMap, "Action", "GetCallerIdentity"), "Version", "2011-06-15")

\* unsafe { String::from_utf8_unchecked(v.to_vec()) }: the bytes, unchecked.
from_utf8_unchecked(v) == v

ValuesToStrings(values) == [i \in 1..Len(values) |-> from_utf8_unchecked(values[i])]

\* request.headers.iter().map(..).collect() into a HashMap<String, Vec<String>>
HeadersToStrings(headers) ==
    AsHashMap([i \in 1..Len(headers) |-> <<headers[i][1], ValuesToStrings(headers[i][2])>>])

\* The request AwsAuthIamPayload::new builds, before it is signed.
PostRequest(r, order, env) ==
    add_headers(
        set_content_type(
            set_payload(SignedRequest_new("POST", "sts", ResolveRegion(r, env), "/"),
                        Some(serde_urlencoded_to_string(GetCallerIdentityParams))),
            "application/x-www-form-urlencoded"),
        order, 1)

\* The request presigned_url builds, before it is signed.
GetRequest(r, order, env) ==
    add_headers(set_params(SignedRequest_new("GET", "sts", ResolveRegion(r, env), "/"),
                           GetCallerIdentityParams),
                order, 1)

RequestUri(req) == scheme(req) \o "://" \o hostname(req) \o canonical_path(req)

\* let result = Self { .. }
PayloadOf(request) ==
    [iam_http_request_method |-> "POST",
     iam_request_url |-> base64_encode(RequestUri(request)),
     iam_request_body |-> base64_encode(Unwrap(request.payload)),
     iam_request_headers |-> HeadersToStrings(request.headers)]

\* AwsAuthIamPayload::new: `order` is the order in which the HashMap of
\* additional headers yields its entries, env the region of the environment.
AwsAuthIamPayload_new(creds, r, order, env, t) ==
    PayloadOf(sign(PostRequest(r, order, env), creds, t))

\* presigned_url gone wrong: the caller's expires_in is ignored.
ExpiresIgnored(expires_in) == DEFAULT_EXPIRES

\* expires_in.unwrap_or(&DEFAULT_EXPIRES)
ExpiresOrDefault(expires_in) ==
    IF IsSome(expires_in) THEN Unwrap(expires_in) ELSE DEFAULT_EXPIRES

\* presigned_url
presigned_url(creds, r, order, expires_in, env, t) ==
    generate_presigned_url(GetRequest(r, order, env), creds, ExpiresOrDefault(expires_in), t)

\* The two records `new` writes through the log crate.
NewLog(payload) ==
    <<[level |-> "info", msg |-> "Building Login Payload for AWS authentication"],
      [level |-> "debug", msg |-> "AWS Payload: ", arg |-> payload]>>

PresignLog ==
    <<[level |-> "info", msg |-> "Building pre-signed URL for AWS authentication"]>>

----------------------------------------------------------------------------
(* The inputs the model draws from *)

\* rusoto_mock's credentials, and the same with a session token.
CredentialChoices ==
    {[key |-> "mock_key", secret |-> "mock_secret", token |-> None],
     [key |-> "mock_key", secret |-> "mock_secret", token |-> Some("mock_token")]}

RegionChoices == {None, Some("us-east-1"), Some("cn-north-1")}

\* What the environment names as the region when the call reads it.
EnvChoices == {None, Some("eu-west-1")}

ExpiresChoices == {None, Some(30000)}

HeaderPool ==
    {<<"X-K8S-AWS-ID", "example">>,
     <<"x-k8s-aws-id", "other">>,
     <<"User-Agent", "curl">>,
     <<"X-Amz-Security-Token", "forged">>,
     <<"Bad Name", "v">>}

\* A HashMap holds each (case-sensitive) key once.
HeaderMaps ==
    {S \in SUBSET HeaderPool :
        /\ Cardinality(S) <= MaxHeaders
        /\ \A a, b \in S : a[1] = b[1] => a = b}

\* Every order in which a HashMap may yield its entries.
IterationOrders(S) ==
    {f \in [1..Cardinality(S) -> S] : \A i, j \in 1..Cardinality(S) : f[i] = f[j] => i = j}

\* The environment is read only when no region is given.
EnvRead(r) == IF IsSome(r) THEN {None} ELSE EnvChoices

----------------------------------------------------------------------------
(* The state machine: a caller with fixed arguments calls the two           *)
(* operations, in any order and any number of times, while the clock runs.  *)

Init ==
    /\ credentials \in CredentialChoices
    /\ region \in RegionChoices
    /\ additional_headers \in HeaderMaps
    /\ now = 0
    /\ result = None
    /\ logged = <<>>

\* What the state keeps of a call of `new` that left the request `request`.
NewReturned(request, env) ==
    [op |-> "new", at |-> now, env |-> env, expires_in |-> None,
     out |-> PayloadOf(request), signed_over |-> request.signed_over]

New ==
    \E order \in IterationOrders(additional_headers), env \in EnvRead(region) :
        /\ result' = Some(NewReturned(sign(PostRequest(region, order, env), credentials, now),
                                      env))
        /\ logged' = NewLog(Unwrap(result').out)
        /\ UNCHANGED <<credentials, region, additional_headers, now>>

PresignReturned(request, env, expires_in) ==
    [op |-> "presigned_url", at |-> now, env |-> env, expires_in |-> expires_in,
     out |-> RenderUrl(request), signed_over |-> request.signed_over]

Presign ==
    \E order \in IterationOrders(additional_headers), env \in EnvRead(region),
       expires_in \in ExpiresChoices :
        /\ result' = Some(PresignReturned(
                        Presigned(GetRequest(region, order, env), credentials,
                                  ExpiresOrDefault(expires_in), now),
                        env, expires_in))
        /\ logged' = PresignLog
        /\ UNCHANGED <<credentials, region, additional_headers, now>>

Tick ==
    /\ now < MaxNow
    /\ now' = now + 1
    /\ UNCHANGED <<credentials, region, additional_headers, result, logged>>

Next == New \/ Presign \/ Tick

Spec == Init /\ [][Next]_vars

----------------------------------------------------------------------------
(* Reading the artifacts back, as the tests of client.rs do *)

\* The places of P in ascending order.
Ascending(P) ==
    [k \in 1..Cardinality(P) |-> CHOOSE p \in P : Cardinality({q \in P : q < p}) = k - 1]

CutAt(s, P) ==
    [k \in 1..(Len(P) + 1) |->
        SubSeq(s, IF k = 1 THEN 1 ELSE P[k - 1] + 1, IF k > Len(P) THEN Len(s) ELSE P[k] - 1)]

\* str::split on a one-character separator
Split(s, sep) == CutAt(s, Ascending(Occurrences(s, sep)))

Range(seq) == {seq[i] : i \in DOMAIN seq}

HexValue(c) == (CHOOSE i \in 1..16 : Chr(HexDigitsUpper, i) = c) - 1

DecodedAt(s, i) ==
    IF Chr(s, i) = "%" THEN FromCode(16 * HexValue(Chr(s, i + 1)) + HexValue(Chr(s, i + 2)))
    ELSE IF (i > 1 /\ Chr(s, i - 1) = "%") \/ (i > 2 /\ Chr(s, i - 2) = "%") THEN ""
    ELSE Chr(s, i)

percent_decode(s) == Concat([i \in 1..Len(s) |-> DecodedAt(s, i)])

\* url::Url::parse(&url): scheme, host, path and query of an absolute URL
url_scheme(u) == SubSeq(u, 1, Find(u, "://") - 1)

AfterScheme(u) == SubSeq(u, Find(u, "://") + 3, Len(u))

HostOf(rest) == SubSeq(rest, 1, Find(rest, "/") - 1)

url_host(u) == HostOf(AfterScheme(u))

PathOf(rest) == SubSeq(rest, Find(rest, "/"), Find(rest, "?") - 1)

url_path(u) == PathOf(AfterScheme(u))

url_query(u) == SubSeq(u, Find(u, "?") + 1, Len(u))

PairOf(p) ==
    <<percent_decode(SubSeq(p, 1, Find(p, "=") - 1)),
      percent_decode(SubSeq(p, Find(p, "=") + 1, Len(p)))>>

PairsOf(parts) == [i \in 1..Len(parts) |-> PairOf(parts[i])]

\* url.query_pairs(): the decoded <<name, value>> pairs, in the URL's order
query_pairs(u) == PairsOf(Split(url_query(u), "&"))

\* The pairs with the given name.
Named(pairs, name) == SelectSeq(pairs, LAMBDA p : p[1] = name)

Between(s, a, b) == SubSeq(s, Find(s, a) + Len(a), Find(s, b) - 1)

\* The SignedHeaders part of an authorization header.
SignedHeadersOf(auth) == Between(auth, "SignedHeaders=", ", Signature=")

NoUpperCase(k) == \A i \in 1..Len(k) : ~IsUpper(Chr(k, i))

\* The last call was `op` and this is what it returned.
Returned(op) == IsSome(result) /\ Unwrap(result).op = op

Out == Unwrap(result).out

\* The region the last call signed for.
SignedRegion == ResolveRegion(region, Unwrap(result).env)

\* The host a claim names for region r, and the host of the STS endpoint of r.
ClaimedHost(r) == "sts." \o r \o ".amazonaws.com"

EndpointHost(r) ==
    IF r \in {"cn-north-1", "cn-northwest-1"} THEN "sts." \o r \o ".amazonaws.com.cn"
    ELSE "sts." \o r \o ".amazonaws.com"

\* The signed-headers value of the artifact the last call returned.
SignedHeadersValue ==
    IF Unwrap(result).op = "new"
    THEN SignedHeadersOf(Out.iam_request_headers["authorization"][1])
    ELSE Named(query_pairs(Out), "X-Amz-SignedHeaders")[1][2]

----------------------------------------------------------------------------
(* C1 *)

PostShape(out, host_name) ==
    /\ out.iam_http_request_method = "POST"
    /\ out.iam_request_url = base64_encode("https://" \o host_name \o "/")
    /\ out.iam_request_body = base64_encode("Action=GetCallerIdentity&Version=2011-06-15")

----------------------------------------------------------------------------
(* C2 *)

LowerName(e) == to_ascii_lowercase(e[1])

\* The supplied headers whose names lower-case to k.
Supplied(k) == {e \in additional_headers : LowerName(e) = k}

\* The header names sign() sets itself.
SetBySigner ==
    {"host", "content-type", "content-length", "x-amz-date", "x-amz-content-sha256",
     "authorization"}
        \cup (IF IsSome(credentials.token) THEN {"x-amz-security-token"} ELSE {})

SignedKeys(h) == "authorization" \in DOMAIN h /\ \A k \in DOMAIN h : NoUpperCase(k)

\* C2 as stated: iam_request_headers has the key "authorization", every key
\* is lower-case, and every supplied header (N, V) is under lowercase(N) with
\* the value list exactly [V].
C2_Original ==
    Returned("new") =>
        /\ SignedKeys(Out.iam_request_headers)
        /\ \A e \in additional_headers :
            /\ LowerName(e) \in DOMAIN Out.iam_request_headers
            /\ Out.iam_request_headers[LowerName(e)] = <<e[2]>>

HoldsSupplied(values, supplied) ==
    /\ Len(values) = Cardinality(supplied)
    /\ Range(values) = {e[2] : e \in supplied}

\* C2, amended: iam_request_headers has the key "authorization", every key
\* is lower-case, and for every supplied header (N, V) whose lower-cased name
\* sign() does not set itself, the list under lowercase(N) holds exactly the
\* values of the supplied headers whose names lower-case to it: [V] alone
\* unless another supplied header has the same name in another case.
C2_Headers ==
    Returned("new") =>
        /\ SignedKeys(Out.iam_request_headers)
        /\ \A e \in additional_headers :
            LowerName(e) \notin SetBySigner =>
                /\ LowerName(e) \in DOMAIN Out.iam_request_headers
                /\ HoldsSupplied(Out.iam_request_headers[LowerName(e)], Supplied(LowerName(e)))
                /\ Cardinality(Supplied(LowerName(e))) = 1 =>
                        Out.iam_request_headers[LowerName(e)] = <<e[2]>>

C2_Witness ==
    /\ Returned("new")
    /\ additional_headers = {<<"X-K8S-AWS-ID", "example">>, <<"User-Agent", "curl">>}
    /\ Out.iam_request_headers["x-k8s-aws-id"] = <<"example">>
    /\ Out.iam_request_headers["user-agent"] = <<"curl">>

----------------------------------------------------------------------------
(* C3 *)

Once(pairs, name, value) == Named(pairs, name) = <<<<name, value>>>>

OnceNonEmpty(pairs, name) ==
    Len(Named(pairs, name)) = 1 /\ Named(pairs, name)[1][2] # ""

DefaultQuery(pairs) ==
    /\ Once(pairs, "Action", "GetCallerIdentity")
    /\ Once(pairs, "Version", "2011-06-15")
    /\ Once(pairs, "X-Amz-Algorithm", "AWS4-HMAC-SHA256")
    /\ Once(pairs, "X-Amz-Expires", "60")
    /\ OnceNonEmpty(pairs, "X-Amz-Signature")
    /\ OnceNonEmpty(pairs, "X-Amz-Credential")
    /\ OnceNonEmpty(pairs, "X-Amz-Date")

UrlShape(u, host_name) ==
    /\ url_scheme(u) = "https"
    /\ url_host(u) = host_name
    /\ DefaultQuery(query_pairs(u))

----------------------------------------------------------------------------
(* C4 *)

\* C4: with the region omitted, the hostname of either artifact is the global
\* STS hostname, sts.amazonaws.com, with no region segment in it.
C4_GlobalWhenOmitted ==
    (IsSome(result) /\ region = None) =>
        IF Unwrap(result).op = "new"
        THEN Out.iam_request_url = base64_encode("https://sts.amazonaws.com/")
        ELSE url_host(Out) = "sts.amazonaws.com"

----------------------------------------------------------------------------
(* C5 *)

TokenChars == "!#$%&'*+-.^_|~"

IsTokenChar(c) == IsUpper(c) \/ IsLower(c) \/ IsDigit(c) \/ Contains(TokenChars, c)

\* An HTTP header name is a non-empty token.
Representable(e) == Len(e[1]) > 0 /\ \A i \in 1..Len(e[1]) : IsTokenChar(Chr(e[1], i))

\* C5: a call whose additional headers hold a name that cannot be
\* represented returns no artifact.
C5_InvalidHeaderRejected ==
    (\E e \in additional_headers : ~Representable(e)) => result = None

----------------------------------------------------------------------------
(* C6 *)

SameCall(a, b) ==
    a.op = b.op /\ a.at = b.at /\ a.env = b.env /\ a.expires_in = b.expires_in

\* C6: two calls of the same operation with the same arguments at the same
\* timestamp return the same output, whatever the order in which the map of
\* additional headers yields its entries.
C6_Deterministic ==
    [][(IsSome(result) /\ IsSome(result') /\ SameCall(Unwrap(result), Unwrap(result')))
            => Unwrap(result').out = Unwrap(result).out]_vars

----------------------------------------------------------------------------
(* C7 *)

Lists(listed, names) ==
    /\ Range(listed) = names
    /\ Len(listed) = Cardinality(names)
    /\ \A i \in 1..Len(listed) : NoUpperCase(listed[i])
    /\ \A i \in 1..(Len(listed) - 1) : StrLess(listed[i], listed[i + 1])

\* C7 as stated: the signed-headers value lists every header the request
\* held when the signature was computed, lower-cased, sorted, joined by ';',
\* none omitted and none twice.
C7_Original ==
    IsSome(result) =>
        Lists(Split(SignedHeadersValue, ";"), Range(Unwrap(result).signed_over))

\* C7, amended: the signed-headers value lists every header the request held
\* when the signature was computed other than authorization, content-length
\* and user-agent, lower-cased, sorted, joined by ';', none twice; a presigned
\* URL with the single additional header X-K8S-AWS-ID has "host;x-k8s-aws-id".
C7_SignedHeaders ==
    IsSome(result) =>
        /\ Lists(Split(SignedHeadersValue, ";"),
                 Range(Unwrap(result).signed_over)
                    \ {"authorization", "content-length", "user-agent"})
        /\ (Unwrap(result).op = "presigned_url"
                /\ additional_headers = {<<"X-K8S-AWS-ID", "example">>})
              => SignedHeadersValue = "host;x-k8s-aws-id"

C7_Witness ==
    /\ Returned("presigned_url")
    /\ additional_headers = {<<"X-K8S-AWS-ID", "example">>}
    /\ SignedHeadersValue = "host;x-k8s-aws-id"
    /\ Range(Unwrap(result).signed_over)
          = {"authorization", "content-length", "host", "x-k8s-aws-id"}

----------------------------------------------------------------------------
(* C8 *)

Seconds(expires_in) == IF IsSome(expires_in) THEN Unwrap(expires_in) \div 1000 ELSE 60

NotExpiresNorSignature(p) == p[1] \notin {"X-Amz-Expires", "X-Amz-Signature"}

ExpiresIs(pairs, expires_in) == Once(pairs, "X-Amz-Expires", U64ToString(Seconds(expires_in)))

SameButExpires(u, v, p, q) ==
    /\ url_scheme(u) = url_scheme(v)
    /\ url_host(u) = url_host(v)
    /\ url_path(u) = url_path(v)
    /\ Keys(p) = Keys(q)
    /\ SelectSeq(p, NotExpiresNorSignature) = SelectSeq(q, NotExpiresNorSignature)

ExpiresStep(a, b) ==
    b.op = "presigned_url" =>
        /\ ExpiresIs(query_pairs(b.out), b.expires_in)
        /\ (a.op = "presigned_url" /\ a.at = b.at /\ a.env = b.env)
              => SameButExpires(a.out, b.out, query_pairs(a.out), query_pairs(b.out))

FirstStep(b) == b.op = "presigned_url" => ExpiresIs(query_pairs(b.out), b.expires_in)

\* C8: X-Amz-Expires of a presigned URL is the caller's expires_in in seconds,
\* 60 when there is none; two calls at the same timestamp that differ only in
\* expires_in give URLs with the same host, path and parameter names, and the
\* same value for every parameter but X-Amz-Expires and X-Amz-Signature.
C8_ExpiresOnly ==
    [][IsSome(result') =>
            IF IsSome(result) THEN ExpiresStep(Unwrap(result), Unwrap(result'))
            ELSE FirstStep(Unwrap(result'))]_vars

C8_Witness ==
    /\ Returned("presigned_url")
    /\ Unwrap(result).expires_in = Some(30000)
    /\ Once(query_pairs(Out), "X-Amz-Expires", "30")

----------------------------------------------------------------------------
(* C9 *)

TokenSigned(h) ==
    /\ "x-amz-security-token" \in DOMAIN h
    /\ "x-amz-security-token" \in Range(Split(SignedHeadersOf(h["authorization"][1]), ";"))

\* C9 as stated: with a session token, iam_request_headers has
\* x-amz-security-token and SignedHeaders names it; with none, the payload has
\* no x-amz-security-token header.
C9_Original ==
    Returned("new") =>
        IF IsSome(credentials.token) THEN TokenSigned(Out.iam_request_headers)
        ELSE "x-amz-security-token" \notin DOMAIN Out.iam_request_headers

\* C9, amended: with a session token, iam_request_headers has
\* x-amz-security-token with the token as its only value and SignedHeaders
\* names it; with none, the payload has an x-amz-security-token header only
\* when the caller supplied one among the additional headers.
C9_SecurityToken ==
    Returned("new") =>
        IF IsSome(credentials.token)
        THEN /\ TokenSigned(Out.iam_request_headers)
             /\ Out.iam_request_headers["x-amz-security-token"]
                    = <<Unwrap(credentials.token)>>
        ELSE ("x-amz-security-token" \in DOMAIN Out.iam_request_headers)
                <=> (Supplied("x-amz-security-token") # {})

C9_Witness ==
    /\ Returned("new")
    /\ <<"X-Amz-Security-Token", "forged">> \in additional_headers
    /\ Out.iam_request_headers["x-amz-security-token"] = <<"mock_token">>

----------------------------------------------------------------------------
(* C10 *)

Leaks(s) == Contains(s, credentials.secret)

PayloadClean(out) ==
    /\ ~Leaks(out.iam_http_request_method)
    /\ ~Leaks(out.iam_request_url)
    /\ ~Leaks(out.iam_request_body)
    /\ \A k \in DOMAIN out.iam_request_headers :
        \A i \in DOMAIN out.iam_request_headers[k] : ~Leaks(out.iam_request_headers[k][i])

UrlClean(u) == ~Leaks(u) /\ ~Leaks(percent_decode(u))

InfoLogClean == \A i \in DOMAIN logged : logged[i].level = "info" => ~Leaks(logged[i].msg)

\* C10: the secret access key is in no field of a post payload, nowhere in a
\* presigned URL, and in no record logged at info level.
C10_SecretKept ==
    /\ InfoLogClean
    /\ IsSome(result) =>
        IF Unwrap(result).op = "new" THEN PayloadClean(Out) ELSE UrlClean(Out)

C10_Witness ==
    /\ Returned("presigned_url")
    /\ Len(logged) = 1
    /\ Contains(Out, "X-Amz-Credential=mock_key%2F")
    /\ ~Contains(Out, "mock_secret")

====
